---- MODULE Spec2Model ----
(***************************************************************************)
(* Model of LearningAgent (projects/smartcab/smartcab/agent.py): the       *)
(* Q-table, the exploration-decay schedules of reset, createQ, get_maxQ,   *)
(* choose_action, learn and the full step update().                        *)
(*                                                                         *)
(* Numbers.  epsilon, alpha, decay, rewards and Q-values are Python floats.*)
(* They are modelled as exact rationals <<n, d>> (d > 0, lowest terms);    *)
(* all inputs are dyadic, so the float operations the model performs       *)
(* (+, -, *, small powers) are exact in IEEE double as well.  math.exp and *)
(* math.cos are evaluated in fixed point with Scale steps per unit.        *)
(* Not modelled: the planner and the simulator's view of the agent         *)
(* (planner.route_to, self.state, self.next_waypoint), which no method     *)
(* modelled here reads.                                                    *)
(* The script is Python 2 (raw_input, line 160): `/` on two ints is floor  *)
(* division.                                                               *)
(***************************************************************************)
EXTENDS Integers, Sequences, FiniteSets, TLC

VARIABLES learning, Q, epsilon, alpha, t, decay_fun, decay,
          steps, lastReset, last, pre

vars == <<learning, Q, epsilon, alpha, t, decay_fun, decay,
          steps, lastReset, last, pre>>

----------------------------------------------------------------------------
(* Bounds of the model *)

\* reset is not called once the trial counter has reached MaxT
MaxT == 2
\* learn (directly or inside update) is called at most MaxSteps times
MaxSteps == 2
\* fixed-point resolution of the math.exp / math.cos evaluation
Scale == 1024

----------------------------------------------------------------------------
(* Float arithmetic on rationals *)

Abs(n) == IF n < 0 THEN -n ELSE n

RECURSIVE GCD(_, _)
GCD(a, b) == IF b = 0 THEN a ELSE GCD(b, a % b)

Rat(n, d) ==
    LET g == GCD(Abs(n), Abs(d))
        s == IF d < 0 THEN -1 ELSE 1
    IN  <<(s * n) \div g, (s * d) \div g>>

Zero == <<0, 1>>
One  == <<1, 1>>
Half == <<1, 2>>

RAdd(x, y) == Rat(x[1] * y[2] + y[1] * x[2], x[2] * y[2])
RSub(x, y) == Rat(x[1] * y[2] - y[1] * x[2], x[2] * y[2])
RMul(x, y) == Rat(x[1] * y[1], x[2] * y[2])
RLess(x, y) == x[1] * y[2] < y[1] * x[2]
RLeq(x, y)  == x[1] * y[2] <= y[1] * x[2]

RECURSIVE RPow(_, _)
RPow(x, k) == IF k = 0 THEN One ELSE RMul(x, RPow(x, k - 1))

\* Python 2 `a / b` on two ints: floor division, an int result
PyIntDiv(a, b) == <<a \div b, 1>>

\* x as a fixed-point number of 1/Scale units (x >= 0)
ToFixed(x) == (x[1] * Scale) \div x[2]

\* the power series of exp and cos in fixed point: the sum, from index k on,
\* of the terms X^k / k! (term is the k-th one); alt alternates the signs,
\* evenOnly keeps the even powers; it stops when a term underflows to 0
RECURSIVE Series(_, _, _, _, _)
Series(X, k, term, alt, evenOnly) ==
    IF term = 0 THEN 0
    ELSE LET sign == IF ~alt THEN 1
                     ELSE IF evenOnly
                          THEN (IF (k \div 2) % 2 = 0 THEN 1 ELSE -1)
                          ELSE (IF k % 2 = 0 THEN 1 ELSE -1)
             used == IF evenOnly /\ k % 2 = 1 THEN 0 ELSE sign * term
         IN  used + Series(X, k + 1, (term * X) \div (Scale * (k + 1)),
                           alt, evenOnly)

\* math.exp(-x) for x >= 0, as 1 / exp(x): always positive, at most 1
ExpNeg(x) ==
    LET e == Series(ToFixed(x), 0, Scale, FALSE, FALSE)
    IN  Rat((Scale * Scale) \div e, Scale)

\* math.cos(x) for x >= 0
Cos(x) == Rat(Series(ToFixed(x), 0, Scale, TRUE, TRUE), Scale)

----------------------------------------------------------------------------
(* Domains *)

\* self.env.valid_actions; None is written "None"
valid_actions == {"None", "forward", "left", "right"}

\* what a caller may pass to learn as action: the valid ones and a foreign one
ActionArgs == valid_actions \cup {"uturn"}

\* the sensor values and waypoints the environment produces in the model
Lights    == {"green", "red"}
Waypoints == {"forward"}
Oncomings == {"None"}
Lefts     == {"None"}

\* build_state: the tuple (light, waypoint, oncoming, left)
build_state(light, waypoint, oncoming, left) ==
    <<light, waypoint, oncoming, left>>

States == {build_state(l, w, o, f) :
             l \in Lights, w \in Waypoints, o \in Oncomings, f \in Lefts}

NoState == <<"-", "-", "-", "-">>

\* rewards env.act returns in the model
Rewards == {Zero, One}

\* constructor arguments
LearningArgs == BOOLEAN
EpsilonArgs  == {One}
AlphaArgs    == {Half}
DecayFunArgs == -1 .. 5
DecayArgs    == {<<7, 8>>}

----------------------------------------------------------------------------
(* The Q-table: a dict of dicts *)

\* d[k] = v on a Python dict: inserts the key or overwrites its value
DictSet(d, k, v) == [x \in (DOMAIN d) \cup {k} |-> IF x = k THEN v ELSE d[x]]

EmptyDict == [x \in {} |-> Zero]

\* a row that lacks the action forward
NewRow_partial == [a \in valid_actions \ {"forward"} |-> Zero]

\* the row createQ inserts
NewRow == [a \in valid_actions |-> Zero]

\* max(self.Q[state].values())
RowMax(row) ==
    CHOOSE m \in {row[a] : a \in DOMAIN row} :
        \A a \in DOMAIN row : RLeq(row[a], m)

\* [k for k, v in self.Q[state].items() if v == max_value]
TiedActions(table, s) ==
    {a \in DOMAIN table[s] : table[s][a] = RowMax(table[s])}

----------------------------------------------------------------------------
(* The methods of LearningAgent as functions of the fields they read *)

\* __init__: a decay_fun above 4 is replaced by 0
init_decay_fun(df) == IF df > 4 THEN 0 ELSE df

\* reset, testing is not True: the new epsilon, by the if/elif chain on
\* decay_fun; no branch is taken for a decay_fun the chain does not list
decayed_epsilon(df, eps, d, tt) ==
    CASE df = 0 -> RSub(eps, d)
      [] df = 1 -> PyIntDiv(1, tt * tt)
      [] df = 2 -> RMul(eps, RPow(RSub(One, d), tt))
      [] df = 3 -> ExpNeg(RMul(d, <<tt, 1>>))
      [] df = 4 -> Cos(RMul(d, <<tt, 1>>))
      [] OTHER  -> eps

\* reset: the new epsilon and alpha
reset_epsilon(testing, df, eps, d, tt) ==
    IF testing THEN Zero ELSE decayed_epsilon(df, eps, d, tt)

\* alpha not set to 0 when testing
reset_alpha_kept(testing, al) == al

reset_alpha(testing, al) == IF testing THEN Zero ELSE al

\* get_maxQ: self.Q[state] raises KeyError for an absent key
get_maxQ_outcome(table, s) ==
    IF s \in DOMAIN table
    THEN [outcome |-> "ok", value |-> RowMax(table[s])]
    ELSE [outcome |-> "KeyError", value |-> Zero]

\* createQ without the test of self.learning
createQ_table_always(lrn, table, s) ==
    IF s \notin DOMAIN table THEN DictSet(table, s, NewRow) ELSE table

\* createQ without the test `state not in self.Q`
createQ_table_overwrite(lrn, table, s) ==
    IF lrn THEN DictSet(table, s, NewRow) ELSE table

\* createQ that inserts nothing
createQ_table_never(lrn, table, s) == table

\* createQ: the table after the call
createQ_table(lrn, table, s) ==
    IF lrn
    THEN IF s \notin DOMAIN table THEN DictSet(table, s, NewRow) ELSE table
    ELSE table

\* random.uniform(0, 1) is 0 + (1 - 0) * random.random(), in [0, 1)
XDraws == {Zero, <<1, 4>>, Half, <<3, 4>>}

\* if x <= self.epsilon
explores_inclusive(x, eps) == RLeq(x, eps)

\* if x < self.epsilon
explores(x, eps) == RLess(x, eps)

\* choose_action, learning: the tied candidate cand, overridden by the
\* random action expl when the draw x is below epsilon
chosen(cand, x, expl, eps) == IF explores(x, eps) THEN expl ELSE cand

\* choose_action reading an absent row as a row of zeros
choose_action_outcomes_default(lrn, table, eps, s) ==
    IF ~lrn
    THEN {[outcome |-> "ok", action |-> a] : a \in valid_actions}
    ELSE LET row == IF s \in DOMAIN table THEN table[s] ELSE NewRow
         IN  {[outcome |-> "ok", action |-> chosen(c[1], c[2], c[3], eps)] :
                 c \in {a \in DOMAIN row : row[a] = RowMax(row)} \X XDraws \X valid_actions}

\* choose_action: every outcome the random draws can produce
choose_action_outcomes(lrn, table, eps, s) ==
    IF ~lrn
    THEN {[outcome |-> "ok", action |-> a] : a \in valid_actions}
    ELSE IF get_maxQ_outcome(table, s).outcome = "KeyError"
         THEN {[outcome |-> "KeyError", action |-> "-"]}
         ELSE {[outcome |-> "ok", action |-> chosen(c[1], c[2], c[3], eps)] :
                 c \in TiedActions(table, s) \X XDraws \X valid_actions}

\* Qvalue + self.alpha * reward
learn_value_undamped(al, qvalue, reward) == RAdd(qvalue, RMul(al, reward))

\* learn: (1 - self.alpha) * Qvalue + self.alpha * reward
learn_value(al, qvalue, reward) ==
    RAdd(RMul(RSub(One, al), qvalue), RMul(al, reward))

\* learn: self.Q[state][action] is read first (KeyError for an absent state
\* or action), then assigned
learn_outcome(lrn, table, al, s, a, r) ==
    IF ~lrn
    THEN [outcome |-> "ok", table |-> table]
    ELSE IF s \notin DOMAIN table \/ a \notin DOMAIN table[s]
         THEN [outcome |-> "KeyError", table |-> table]
         ELSE [outcome |-> "ok",
               table |-> DictSet(table, s,
                           DictSet(table[s], a,
                                   learn_value(al, table[s][a], r)))]

----------------------------------------------------------------------------
(* State *)

\* learning, Q, epsilon, alpha, t, decay_fun, decay: the fields of the agent.
\* steps: how many times learn has been called.
\* lastReset: "none" before the first reset; "train" while every reset so
\*   far had testing False; "test" when the most recent reset had testing
\*   True; "retrain" when the most recent had testing False and an earlier
\*   one had testing True.
\* last: the most recent call, see Last.  pre: the fields as that call found
\*   them.

\* the record of the most recent call: its name, arguments, outcome, result
Last(op, s, a, r, v, outcome, trace) ==
    [op |-> op, s |-> s, a |-> a, r |-> r, v |-> v,
     outcome |-> outcome, trace |-> trace]

Fields == [Q |-> Q, epsilon |-> epsilon, alpha |-> alpha, t |-> t]

Init ==
    /\ learning \in LearningArgs
    /\ Q = EmptyDict
    /\ epsilon \in EpsilonArgs
    /\ alpha \in AlphaArgs
    /\ t = 0
    /\ \E df \in DecayFunArgs : decay_fun = init_decay_fun(df)
    /\ decay \in DecayArgs
    /\ steps = 0
    /\ lastReset = "none"
    /\ last = Last("init", NoState, "-", Zero, Zero, "ok", <<>>)
    /\ pre = Fields

----------------------------------------------------------------------------
(* Calls *)

reset(testing) ==
    /\ t < MaxT
    /\ t' = t + 1
    /\ epsilon' = reset_epsilon(testing, decay_fun, epsilon, decay, t + 1)
    /\ alpha' = reset_alpha(testing, alpha)
    /\ lastReset' = IF testing THEN "test"
                    ELSE IF lastReset \in {"test", "retrain"} THEN "retrain"
                    ELSE "train"
    /\ last' = Last("reset", NoState, "-", Zero, Zero, "ok", <<>>)
    /\ pre' = Fields
    /\ UNCHANGED <<learning, Q, decay_fun, decay, steps>>

get_maxQ(s) ==
    /\ LET o == get_maxQ_outcome(Q, s)
       IN  last' = Last("get_maxQ", s, "-", Zero, o.value, o.outcome, <<>>)
    /\ pre' = Fields
    /\ UNCHANGED <<learning, Q, epsilon, alpha, t, decay_fun, decay,
                   steps, lastReset>>

createQ(s) ==
    /\ Q' = createQ_table(learning, Q, s)
    /\ last' = Last("createQ", s, "-", Zero, Zero, "ok", <<>>)
    /\ pre' = Fields
    /\ UNCHANGED <<learning, epsilon, alpha, t, decay_fun, decay,
                   steps, lastReset>>

choose_action(s) ==
    /\ \E o \in choose_action_outcomes(learning, Q, epsilon, s) :
         last' = Last("choose_action", s, o.action, Zero, Zero, o.outcome, <<>>)
    /\ pre' = Fields
    /\ UNCHANGED <<learning, Q, epsilon, alpha, t, decay_fun, decay,
                   steps, lastReset>>

learn(s, a, r) ==
    /\ steps < MaxSteps
    /\ steps' = steps + 1
    /\ LET o == learn_outcome(learning, Q, alpha, s, a, r)
       IN  /\ Q' = o.table
           /\ last' = Last("learn", s, a, r, Zero, o.outcome, <<>>)
    /\ pre' = Fields
    /\ UNCHANGED <<learning, epsilon, alpha, t, decay_fun, decay,
                   lastReset>>

\* the calls update makes, in the order of its statements
UpdateCalls == <<"build_state", "createQ", "choose_action", "act", "learn">>

\* update: build_state, createQ, choose_action, env.act, learn, in this
\* order; an exception ends the step at the call that raises it
update(light, waypoint, oncoming, left, r) ==
    /\ steps < MaxSteps
    /\ steps' = steps + 1
    /\ LET s  == build_state(light, waypoint, oncoming, left)
           Q1 == createQ_table(learning, Q, s)
       IN  \E c \in choose_action_outcomes(learning, Q1, epsilon, s) :
                IF c.outcome # "ok"
                THEN /\ Q' = Q1
                     /\ last' = Last("update", s, "-", Zero, Zero, c.outcome,
                                     SubSeq(UpdateCalls, 1, 3))
                ELSE LET o == learn_outcome(learning, Q1, alpha, s,
                                            c.action, r)
                     IN  /\ Q' = o.table
                         /\ last' = Last("update", s, c.action, r, Zero,
                                         o.outcome, UpdateCalls)
    /\ pre' = Fields
    /\ UNCHANGED <<learning, epsilon, alpha, t, decay_fun, decay, lastReset>>

Next ==
    \/ \E testing \in BOOLEAN : reset(testing)
    \/ \E s \in States : get_maxQ(s)
    \/ \E s \in States : createQ(s)
    \/ \E s \in States : choose_action(s)
    \/ \E s \in States, a \in ActionArgs, r \in Rewards : learn(s, a, r)
    \/ \E l \in Lights, w \in Waypoints, o \in Oncomings, f \in Lefts,
          r \in Rewards : update(l, w, o, f, r)

Spec == Init /\ [][Next]_vars

----------------------------------------------------------------------------
(* Properties *)

\* the actions whose value no action of the row exceeds
ArgMax(row) == {a \in DOMAIN row : \A b \in DOMAIN row : RLeq(row[b], row[a])}

AllZero(row) == \A a \in DOMAIN row : row[a] = Zero

Called(op) == last.op = op

Unchanged == Fields = pre

\* C1: every state that is a key of the table has a row over exactly the
\* four actions none, forward, left, right, and a row is 0.0 for all four
\* actions when it is inserted (inside update, the step's own learn has then
\* moved the chosen action's entry from 0.0 to alpha * reward).
C1_FullRows ==
    /\ \A s \in DOMAIN Q : DOMAIN Q[s] = {"None", "forward", "left", "right"}
    /\ \A s \in (DOMAIN Q) \ (DOMAIN pre.Q) : \A a \in DOMAIN Q[s] :
          \/ Q[s][a] = Zero
          \/ /\ Called("update") /\ s = last.s /\ a = last.a
             /\ Q[s][a] = RMul(pre.alpha, last.r)

C1_Witness ==
    /\ Called("createQ")
    /\ last.s \notin DOMAIN pre.Q
    /\ last.s \in DOMAIN Q
    /\ \E s \in DOMAIN pre.Q : ~AllZero(Q[s])

\* C2, as claimed: after reset(testing=True) and until the next reset,
\* epsilon and alpha are 0, every choose_action returns an action tied for
\* the maximum Q-value of the state, and every learn leaves the table
\* unchanged.
C2_TestingFreezes ==
    lastReset = "test" =>
        /\ epsilon = Zero
        /\ alpha = Zero
        /\ Called("choose_action") /\ last.outcome = "ok" =>
              /\ last.s \in DOMAIN Q
              /\ last.a \in ArgMax(Q[last.s])
        /\ Called("learn") => Q = pre.Q

\* C2, amended: the same, with the statement about choose_action made for
\* learning mode only; a non-learning agent still draws at random from the
\* four actions.
C2_TestingFreezesLearning ==
    lastReset = "test" =>
        /\ epsilon = Zero
        /\ alpha = Zero
        /\ Called("choose_action") /\ last.outcome = "ok" =>
              IF learning
              THEN last.s \in DOMAIN Q /\ last.a \in ArgMax(Q[last.s])
              ELSE last.a \in valid_actions
        /\ Called("learn") => Q = pre.Q

C2_Witness ==
    /\ lastReset = "test"
    /\ learning
    /\ Called("learn")
    /\ last.outcome = "ok"
    /\ last.r = One
    /\ Q[last.s][last.a] = Half

\* C3, as claimed: get_maxQ and choose_action on a state that is not a key
\* of the table end in the unknown-state error (KeyError) and leave the
\* table as it was, in learning mode and in non-learning mode.
C3_UnknownStateRaises ==
    (Called("get_maxQ") \/ Called("choose_action")) /\ last.s \notin DOMAIN pre.Q
        => last.outcome = "KeyError" /\ Q = pre.Q

\* C3, amended: get_maxQ on a state that is not a key ends in KeyError in
\* both modes; choose_action on such a state ends in KeyError in learning
\* mode and returns one of the four actions in non-learning mode; the table
\* is left as it was in every case.
C3_UnknownStateByMode ==
    /\ Called("get_maxQ") /\ last.s \notin DOMAIN pre.Q
          => last.outcome = "KeyError" /\ Q = pre.Q
    /\ Called("choose_action") /\ last.s \notin DOMAIN pre.Q
          => /\ Q = pre.Q
             /\ learning => last.outcome = "KeyError"
             /\ ~learning => last.outcome = "ok" /\ last.a \in valid_actions

C3_Witness ==
    /\ learning
    /\ Called("choose_action")
    /\ last.s \notin DOMAIN pre.Q
    /\ DOMAIN Q # {}

\* C4, as claimed: in every configuration, createQ on a state that is not a
\* key makes it a key with all four actions at 0.0.
C4_EnsureInserts ==
    Called("createQ") /\ last.s \notin DOMAIN pre.Q
        => /\ last.s \in DOMAIN Q
           /\ DOMAIN Q[last.s] = valid_actions
           /\ AllZero(Q[last.s])

\* C4, amended: in learning mode createQ on a state that is not a key makes
\* it a key with all four actions at 0.0 and leaves the other rows alone; in
\* non-learning mode createQ leaves the table unchanged.
C4_EnsureInsertsWhenLearning ==
    Called("createQ") /\ last.s \notin DOMAIN pre.Q
        => IF learning
           THEN /\ DOMAIN Q = (DOMAIN pre.Q) \cup {last.s}
                /\ DOMAIN Q[last.s] = valid_actions
                /\ AllZero(Q[last.s])
                /\ \A s \in DOMAIN pre.Q : Q[s] = pre.Q[s]
           ELSE Q = pre.Q

C4_Witness ==
    /\ learning
    /\ Called("createQ")
    /\ last.s \notin DOMAIN pre.Q
    /\ last.s \in DOMAIN Q
    /\ DOMAIN pre.Q # {}

\* C5: createQ on a state that is already a key leaves the whole table
\* unchanged, so values written by learn survive it.
C5_EnsureIdempotent ==
    Called("createQ") /\ last.s \in DOMAIN pre.Q => Q = pre.Q

C5_Witness ==
    /\ Called("createQ")
    /\ last.s \in DOMAIN pre.Q
    /\ ~AllZero(Q[last.s])

\* C6, as claimed: with decay schedule 1 and only non-testing resets, after
\* the t-th reset epsilon is the fraction 1 / t^2 (1.0 at t = 1, 0.25 at
\* t = 2).
C6_HyperbolicDecay ==
    decay_fun = 1 /\ lastReset = "train" => epsilon = Rat(1, t * t)

\* C7, as claimed: an agent constructed with a decay_fun outside 0..4
\* behaves as schedule 0: every non-testing reset sets epsilon to
\* epsilon - decay.
C7_UnknownScheduleIsLinear ==
    /\ decay_fun \in {init_decay_fun(df) : df \in DecayFunArgs \ (0 .. 4)}
    /\ Called("reset")
    /\ lastReset \in {"train", "retrain"}
    => epsilon = RSub(pre.epsilon, decay)

\* C8: in learning mode with epsilon <= 0, choose_action on a state that is
\* a key returns one of the actions tied for the maximum of the row, and
\* every tied action is a possible result.
C8_GreedyWhenNoExploration ==
    learning /\ RLeq(epsilon, Zero) =>
        /\ \A s \in DOMAIN Q :
              {o.action : o \in choose_action_outcomes(learning, Q, epsilon, s)}
                  = ArgMax(Q[s])
        /\ Called("choose_action") /\ last.s \in DOMAIN Q =>
              last.outcome = "ok" /\ last.a \in ArgMax(Q[last.s])

C8_Witness ==
    /\ learning
    /\ RLess(epsilon, Zero)
    /\ Called("choose_action")
    /\ last.s \in DOMAIN Q
    /\ Cardinality(ArgMax(Q[last.s])) = 2

\* C9: learn on a state that is a key, in learning mode, sets
\* Q[state][action] to (1 - alpha) * old + alpha * reward and changes no
\* other entry, no key, and neither epsilon, alpha nor the trial counter;
\* in non-learning mode learn changes nothing.
C9_LearnFrame ==
    Called("learn") /\ last.outcome = "ok" =>
        IF learning
        THEN /\ DOMAIN Q = DOMAIN pre.Q
             /\ \A s \in DOMAIN Q : DOMAIN Q[s] = DOMAIN pre.Q[s]
             /\ \A s \in DOMAIN Q : \A a \in DOMAIN Q[s] :
                   Q[s][a] = IF s = last.s /\ a = last.a
                             THEN RAdd(RMul(RSub(One, pre.alpha), pre.Q[s][a]),
                                       RMul(pre.alpha, last.r))
                             ELSE pre.Q[s][a]
             /\ epsilon = pre.epsilon /\ alpha = pre.alpha /\ t = pre.t
        ELSE Unchanged

C9_Witness ==
    /\ learning
    /\ Called("learn")
    /\ last.outcome = "ok"
    /\ pre.Q[last.s][last.a] = Half
    /\ Q[last.s][last.a] = <<1, 4>>
    /\ Cardinality(DOMAIN Q) = 2

\* C10: a full step update, in learning mode or not, runs build_state,
\* createQ, choose_action, the environment's act exactly once, then learn,
\* in that order, and ends without the unknown-state error: no lookup of the
\* step is on a state absent from the table.
C10_StepOrder ==
    Called("update") =>
        /\ last.trace = <<"build_state", "createQ", "choose_action", "act",
                          "learn">>
        /\ last.outcome = "ok"
        /\ learning => last.s \in DOMAIN Q

C10_Witness ==
    /\ learning
    /\ Called("update")
    /\ last.s \notin DOMAIN pre.Q
    /\ last.outcome = "ok"
    /\ t > 0

====
